---- MODULE Spec2Model ----
(***************************************************************************)
(* Model of lib/SimpleBatchRequester.py (SimpleBatchRequester) and         *)
(* lib/LocalCache.py (LocalCache) of ai-crypto-meme-coin-analyzer.         *)
(*                                                                         *)
(* The specifications of the module:                                       *)
(*   SpecBatch   - SimpleBatchRequester.run with its thread pool, the      *)
(*                 first pass and the retry pass;                          *)
(*   SpecCache   - LocalCache.cache / LocalCache._cache_handler over a     *)
(*                 cache directory and a clock;                            *)
(*   SpecCorrupt - SpecCache with cache files written over from outside;   *)
(*   SpecSwitch  - SpecCache with disable_cache and enable_cache;          *)
(*   SpecMarker  - SpecSwitch with the marker file operated from several   *)
(*                 processes, each call of the switch observed;            *)
(*   SpecRaise   - SpecCache with wrapped functions that may raise;        *)
(*   SpecUrl     - LocalCache.cache_url with its GET and HEAD requests;    *)
(*   SpecKey     - memoized methods and functions called on receivers      *)
(*                 with and without instance_id;                           *)
(*   SpecRace    - two threads inside _cache_handler on one key, one       *)
(*                 file operation at a time.                               *)
(* Python's None is written None; an optional field is a sequence of       *)
(* length 0 (absent / None) or 1.                                          *)
(***************************************************************************)
EXTENDS Integers, Sequences, FiniteSets, TLC

\* ---------------------------------------------------------------- bounds
MaxN == 2          \* longest requests_list handed to run
MaxRuns == 2       \* consecutive run() invocations on the same list
MaxTime == 2       \* the clock runs from 0 to MaxTime seconds

VARIABLES
    \* ---- SimpleBatchRequester
    requests_list,      \* argument of run: [0..N-1 -> request spec]
    max_workers,        \* self.max_workers
    pc,                 \* position of run: "idle", "pass1", "retry", "done"
    run_no,             \* number of run() invocations started
    results,            \* run: results
    failed_indices,     \* run: failed_indices
    batch,              \* _process_batch: requests_list parameter
    original_index_map, \* _process_batch: original_index_map (empty = None)
    fut,                \* _process_batch: the submitted futures, by temp index
    processed_results,  \* _process_batch: processed_results
    newly_failed,       \* _process_batch: failed_indices
    calls,              \* observer: _worker invocations of this run, per pass and original index
    net_calls,          \* observer: requests.request invocations of this run, per original index
    cached_calls,       \* observer: requests.request invocations over all runs, per original index,
                        \*           for the requests that set cache_time
    cached_fail,        \* observer: original indices that set cache_time and had an HTTP call
                        \*           end without a decoded response, over all runs
    http_out,           \* observer: how the HTTP call of this run ended, per pass and original index
    raised,             \* observer: original indices whose _worker raised in this run, per pass
    cache_ops,          \* observer: uses of cache_handler by the workers of this run, per original index
    prev_failed,        \* observer: original indices that set cache_time and had no successful
                        \*           entry when the previous run returned
    \* ---- LocalCache
    now,                \* time.time(), in seconds
    files,              \* the cache directory: path -> [mtime, data] (and who wrote it)
    last,               \* observer: the last call of a memoized function, None before any
    disabled,           \* the marker file .py-local-cache-disabled exists
    stage,              \* observer: per key, what happened to its entry since a disable_cache
    thr                 \* the threads inside _cache_handler at the same time, by thread

batchVars == <<requests_list, max_workers, pc, run_no, results, failed_indices,
               batch, original_index_map, fut, processed_results, newly_failed,
               calls, net_calls, cached_calls, cached_fail, http_out, raised,
               cache_ops, prev_failed>>

cacheVars == <<now, files, last, disabled, stage, thr>>

vars == <<batchVars, cacheVars>>

\* ---------------------------------------------------------------- values
None == [none |-> TRUE]
IsNone(x) == "none" \in DOMAIN x

EmptyMap == [x \in {} |-> 0]

\* request_data dictionaries: id and cache_time are optional keys.  The id
\* is only copied into the entry and takes no part in the control flow of
\* run, so the batches enumerated here leave it out.
RequestSpecs == [id : {<<>>}, url : {"A"}, cache_time : {<<>>, <<60>>}]

\* the max_workers values SimpleBatchRequester is constructed with
PoolSizes == {1, 2}

\* lists of length n, indexed from 0 as in Python
ListsOf(S, n) == [0 .. n - 1 -> S]

\* ------------------------------------------------------------- _worker
\* request_id = request_data.get('id') or request_index
RequestId(request_data, request_index) ==
    IF request_data.id # <<>> /\ request_data.id[1] # 0
    THEN request_data.id[1] ELSE request_index

\* What one call of requests.request, raise_for_status and the body decoding
\* can end in: a 2xx/3xx response whose body is decoded, a 4xx/5xx status, a
\* transport failure (connection error, timeout), a body announced as JSON
\* that does not parse, or an exception that is no RequestException (an
\* invalid timeout or header value, for one).
HttpOutcomes == {"ok", "http_error", "transport", "bad_json", "unexpected"}

\* observer: how the HTTP call of a request ended, as the claims class it
HttpClass(o) ==
    CASE o = "ok" -> "response"
      [] o \in {"http_error", "transport"} -> "failure"
      [] OTHER -> "other"

Entry(request_data, request_index, request_result) ==
    [id |-> RequestId(request_data, request_index),
     index |-> request_index,
     result |-> request_result]

Returned(v) == [exc |-> FALSE, value |-> v]
Raised == [exc |-> TRUE, value |-> None]

\* a _worker that consults cache_handler for every request
CacheLookupAlways(request_data) == TRUE
\* cache_handler.get / cache_handler.set: LocalCache defines neither method,
\* so the attribute lookup raises AttributeError, which is not a
\* RequestException and leaves _worker.
CacheLookupRaises(request_data) == request_data.cache_time # <<>>

\* True when _worker reaches requests.request
MakesHttpCall(request_data) == ~CacheLookupRaises(request_data)

\* "if cache_time is not None and request_ok": _worker reaches cache_handler.set
ReachesCacheSet(request_data, called, o) ==
    request_data.cache_time # <<>> /\ called /\ o = "ok"

\* observer: how often a _worker invocation uses cache_handler
CacheUses(request_data, called, o) ==
    (IF CacheLookupRaises(request_data) THEN 1 ELSE 0)
        + (IF ReachesCacheSet(request_data, called, o) THEN 1 ELSE 0)

\* observer: the entry of a finished run carries a decoded response
Succeeded(entry) == ~IsNone(entry) /\ "status_code" \in DOMAIN entry.result

\* _worker without its "except requests.exceptions.RequestException" clause
WorkerOutcomesUncaught(request_data, request_index, o) ==
    IF CacheLookupRaises(request_data) THEN {Raised}
    ELSE IF o = "ok"
         THEN {Returned(Entry(request_data, request_index,
                              [status_code |-> 200, content |-> "body"]))}
         ELSE {Raised}

\* The outcomes of _worker(request_data, request_index) when the HTTP layer
\* answers with o.  A body that is announced as JSON and does not parse makes
\* response.json() raise: a RequestException subclass in requests >= 2.27
\* (an error-shaped result), a plain ValueError before (leaves _worker).
WorkerOutcomes(request_data, request_index, o) ==
    IF CacheLookupRaises(request_data) THEN {Raised}
    ELSE CASE o = "ok" ->
                {Returned(Entry(request_data, request_index,
                                [status_code |-> 200, content |-> "body"]))}
           [] o \in {"http_error", "transport"} ->
                {Returned(Entry(request_data, request_index, [error |-> "str(e)"]))}
           [] o = "bad_json" ->
                {Returned(Entry(request_data, request_index, [error |-> "str(e)"])),
                 Raised}
           [] OTHER -> {Raised}

\* ------------------------------------------------------- observers
\* original_index_map.get(temp_index, temp_index) if original_index_map else temp_index
OriginalIndex(temp_index) ==
    IF original_index_map # EmptyMap /\ temp_index \in DOMAIN original_index_map
    THEN original_index_map[temp_index] ELSE temp_index

\* the pass the current futures belong to: the retry pass is the one with an index map
Pass == IF original_index_map = EmptyMap THEN 1 ELSE 2

Indices == DOMAIN requests_list

PerPass(x) == [p \in 1 .. 2 |-> [i \in Indices |-> x]]

\* ------------------------------------------------------ _process_batch
\* executor.submit(self._worker, request_data, i) for i, request_data in enumerate(requests_list)
Submit(sub_batch) == [i \in DOMAIN sub_batch |-> [st |-> "queued", out |-> Raised]]

Running == {t \in DOMAIN fut : fut[t].st = "running"}
Queued == {t \in DOMAIN fut : fut[t].st = "queued"}

\* an executor that starts a thread for every work item submitted
PoolFreeAlways == TRUE
\* ThreadPoolExecutor(max_workers=self.max_workers): the executor of the
\* current _process_batch has fewer than max_workers threads at work
PoolFree == Cardinality(Running) < max_workers

\* A pool thread takes the next work item off the executor's FIFO queue; at
\* most max_workers threads exist.
WorkerStart(t) ==
    /\ UNCHANGED cacheVars    /\ pc \in {"pass1", "retry"}
    /\ t \in Queued
    /\ \A u \in Queued : t <= u
    /\ PoolFree
    /\ fut' = [fut EXCEPT ![t].st = "running"]
    /\ calls' = [calls EXCEPT ![Pass][OriginalIndex(t)] = @ + 1]
    /\ UNCHANGED <<requests_list, max_workers, pc, run_no, results, failed_indices,
                   batch, original_index_map, processed_results, newly_failed,
                   net_calls, cached_calls, cached_fail, http_out, raised,
                   cache_ops, prev_failed>>

\* _worker(request_data, t) runs to its return or to the exception that leaves it
WorkerFinish(t, o, out) ==
    /\ UNCHANGED cacheVars    /\ pc \in {"pass1", "retry"}
    /\ t \in Running
    /\ out \in WorkerOutcomes(batch[t], t, o)
    /\ fut' = [fut EXCEPT ![t] = [st |-> "done", out |-> out]]
    /\ raised' = IF out.exc THEN [raised EXCEPT ![Pass] = @ \cup {OriginalIndex(t)}]
                 ELSE raised
    /\ IF MakesHttpCall(batch[t])
       THEN /\ net_calls' = [net_calls EXCEPT ![OriginalIndex(t)] = @ + 1]
            /\ http_out' = [http_out EXCEPT ![Pass][OriginalIndex(t)] = HttpClass(o)]
            /\ cached_calls' = IF batch[t].cache_time # <<>>
                               THEN [cached_calls EXCEPT ![OriginalIndex(t)] = @ + 1]
                               ELSE cached_calls
            /\ cached_fail' = IF batch[t].cache_time # <<>> /\ o # "ok"
                              THEN cached_fail \cup {OriginalIndex(t)}
                              ELSE cached_fail
       ELSE UNCHANGED <<net_calls, http_out, cached_calls, cached_fail>>
    /\ cache_ops' = [cache_ops EXCEPT ![OriginalIndex(t)] =
                         @ + CacheUses(batch[t], MakesHttpCall(batch[t]), o)]
    /\ UNCHANGED <<requests_list, max_workers, pc, run_no, results, failed_indices,
                   batch, original_index_map, processed_results, newly_failed, calls,
                   prev_failed>>

\* the result keeping the index _worker gave it
ReindexedKeepsTemp(result, original_index) == result
\* result['index'] = original_index
Reindexed(result, original_index) == [result EXCEPT !.index = original_index]

\* one iteration of "for future in concurrent.futures.as_completed(...)"
Collect(t) ==
    /\ UNCHANGED cacheVars    /\ pc \in {"pass1", "retry"}
    /\ fut[t].st = "done"
    /\ fut' = [fut EXCEPT ![t].st = "collected"]
    /\ IF fut[t].out.exc
       THEN /\ newly_failed' = newly_failed \cup {OriginalIndex(t)}
            /\ UNCHANGED processed_results
       ELSE /\ processed_results' =
                  Append(processed_results, Reindexed(fut[t].out.value, OriginalIndex(t)))
            /\ UNCHANGED newly_failed
    /\ UNCHANGED <<requests_list, max_workers, pc, run_no, results, failed_indices,
                   batch, original_index_map, calls, net_calls, cached_calls,
                   cached_fail, http_out, raised, cache_ops, prev_failed>>

\* a _process_batch that returns without waiting for its futures
AllCollectedNoWait == TRUE
\* "for future in as_completed(...)" has seen every future and the "with"
\* block of the executor has been left (shutdown(wait=True))
AllCollected == \A t \in DOMAIN fut : fut[t].st = "collected"

\* ------------------------------------------------------------------ run
\* for res in processed_results: results[res['index']] = res
RECURSIVE Merge(_, _)
Merge(res, processed) ==
    IF processed = <<>> THEN res
    ELSE Merge([res EXCEPT ![Head(processed).index] = Head(processed)], Tail(processed))

\* a retry of every request of the batch
UpdatedWithAll(failed, newly) == Indices
\* failed_indices.update(newly_failed_indices)
Updated(failed, newly) == failed \cup newly

\* the orders in which "for ... in failed_indices" can enumerate the set
Enumerations(S) ==
    {f \in [0 .. Cardinality(S) - 1 -> S] : \A a, b \in DOMAIN f : f[a] = f[b] => a = b}

\* failed_requests = [requests_list[i] for i in failed_indices]
FailedRequests(index_map) == [i \in DOMAIN index_map |-> requests_list[index_map[i]]]

\* run(requests_list) up to the submission of the first pass
Run ==
    /\ UNCHANGED cacheVars    /\ pc \in {"idle", "done"}
    /\ run_no < MaxRuns
    /\ run_no' = run_no + 1
    /\ results' = [i \in Indices |-> None]
    /\ failed_indices' = {}
    /\ batch' = requests_list
    /\ original_index_map' = EmptyMap
    /\ fut' = Submit(requests_list)
    /\ processed_results' = <<>>
    /\ newly_failed' = {}
    /\ calls' = PerPass(0)
    /\ net_calls' = [i \in Indices |-> 0]
    /\ http_out' = PerPass("none")
    /\ raised' = [p \in 1 .. 2 |-> {}]
    /\ cache_ops' = [i \in Indices |-> 0]
    /\ prev_failed' = IF run_no = 0 THEN {}
                      ELSE {i \in Indices : /\ requests_list[i].cache_time # <<>>
                                            /\ ~Succeeded(results[i])}
    /\ pc' = "pass1"
    /\ UNCHANGED <<requests_list, max_workers, cached_calls, cached_fail>>

\* the first _process_batch has returned: merge, then retry or return
EndFirstPass(index_map) ==
    /\ UNCHANGED cacheVars    /\ pc = "pass1"
    /\ AllCollected
    /\ results' = Merge(results, processed_results)
    /\ failed_indices' = Updated(failed_indices, newly_failed)
    /\ index_map \in Enumerations(failed_indices')
    /\ IF failed_indices' # {}
       THEN /\ original_index_map' = index_map
            /\ batch' = FailedRequests(index_map)
            /\ fut' = Submit(index_map)
            /\ processed_results' = <<>>
            /\ newly_failed' = {}
            /\ pc' = "retry"
       ELSE /\ pc' = "done"
            /\ UNCHANGED <<original_index_map, batch, fut, processed_results, newly_failed>>
    /\ UNCHANGED <<requests_list, max_workers, run_no, calls, net_calls, cached_calls,
                   cached_fail, http_out, raised, cache_ops, prev_failed>>

\* a retry pass that queues its own failures for another pass
EndRetryAgain ==
    /\ UNCHANGED cacheVars    /\ pc = "retry"
    /\ AllCollected
    /\ results' = Merge(results, processed_results)
    /\ IF newly_failed # {} /\ \A i \in Indices : calls[2][i] < 2
       THEN /\ fut' = Submit(batch)
            /\ processed_results' = <<>>
            /\ newly_failed' = {}
            /\ UNCHANGED pc
       ELSE /\ pc' = "done"
            /\ UNCHANGED <<fut, processed_results, newly_failed>>
    /\ UNCHANGED <<requests_list, max_workers, run_no, failed_indices, batch,
                   original_index_map, calls, net_calls, cached_calls, cached_fail,
                   http_out, raised, cache_ops, prev_failed>>

\* the retry _process_batch has returned: merge its results and return
EndRetry ==
    /\ UNCHANGED cacheVars    /\ pc = "retry"
    /\ AllCollected
    /\ results' = Merge(results, processed_results)
    /\ pc' = "done"
    /\ UNCHANGED <<requests_list, max_workers, run_no, failed_indices, batch,
                   original_index_map, fut, processed_results, newly_failed,
                   calls, net_calls, cached_calls, cached_fail, http_out, raised,
                   cache_ops, prev_failed>>

InitBatch ==
    /\ \E n \in 1 .. MaxN : requests_list \in ListsOf(RequestSpecs, n)
    /\ max_workers \in PoolSizes
    /\ pc = "idle"
    /\ run_no = 0
    /\ results = EmptyMap
    /\ failed_indices = {}
    /\ batch = EmptyMap
    /\ original_index_map = EmptyMap
    /\ fut = EmptyMap
    /\ processed_results = <<>>
    /\ newly_failed = {}
    /\ calls = PerPass(0)
    /\ net_calls = [i \in Indices |-> 0]
    /\ cached_calls = [i \in Indices |-> 0]
    /\ cached_fail = {}
    /\ http_out = PerPass("none")
    /\ raised = [p \in 1 .. 2 |-> {}]
    /\ cache_ops = [i \in Indices |-> 0]
    /\ prev_failed = {}
    /\ now = 0
    /\ files = EmptyMap
    /\ last = None
    /\ disabled = FALSE
    /\ stage = EmptyMap
    /\ thr = EmptyMap

NextBatch ==
    \/ Run
    \/ \E t \in DOMAIN fut : WorkerStart(t)
    \/ \E t \in DOMAIN fut, o \in HttpOutcomes :
          \E out \in WorkerOutcomes(batch[t], t, o) : WorkerFinish(t, o, out)
    \/ \E t \in DOMAIN fut : Collect(t)
    \/ \E index_map \in Enumerations(Updated(failed_indices, newly_failed)) :
          EndFirstPass(index_map)
    \/ EndRetry

SpecBatch == InitBatch /\ [][NextBatch]_vars

\* run returns once every worker invocation has returned or raised
FairSpecBatch == SpecBatch /\ WF_vars(NextBatch)

\* ============================================================ LocalCache
\* ms per second: ttl_ms = ttl_s * 1000, os.path.getmtime(...) * 1000
MsPerSecond == 1000

\* ---- values a wrapped function returns
Value(type, detail) == [type |-> type, detail |-> detail]
NoValue == Value("", "")
EmptyDict == Value("dict", "{}")
MemoValues ==
    {Value("tuple", "[1, 2]"),       \* json.dump writes a tuple as an array, json.load reads a list
     EmptyDict,                      \* JSON object
     Value("bytes", "raw"),          \* json.dump raises TypeError, pickle.dump works
     Value("Lock", "")}              \* neither json.dump nor pickle.dump works

\* ---- json.dump / json.load, pickle.dump / pickle.load
JsonSerializable(v) == v.type \in {"list", "tuple", "dict", "str"}
Picklable(v) == v.type # "Lock"

JsonDump(v) ==
    [enc |-> "json",
     kind |-> IF v.type \in {"list", "tuple"} THEN "array"
              ELSE IF v.type = "str" THEN "string" ELSE "object",
     detail |-> v.detail]
JsonLoad(data) ==
    Value(IF data.kind = "array" THEN "list"
          ELSE IF data.kind = "string" THEN "str" ELSE "dict", data.detail)

PickleDump(v) == [enc |-> "pickle", kind |-> v.type, detail |-> v.detail]
PickleLoad(data) == Value(data.kind, data.detail)

\* what open(path, "w") followed by a dump that raises leaves behind: the
\* text written so far in a .json file, no byte at all in a .pkl file
Partial == [enc |-> "partial", kind |-> "", detail |-> ""]

\* what a cache file holds once something else has written over it: bytes
\* that are neither JSON nor a pickle (json.load raises JSONDecodeError or
\* UnicodeDecodeError, pickle.load raises UnpicklingError), or no byte at all
\* (json.load raises JSONDecodeError, pickle.load raises EOFError)
Garbage == [enc |-> "garbage", kind |-> "", detail |-> ""]
Truncated == [enc |-> "truncated", kind |-> "", detail |-> ""]
Damages == {Garbage, Truncated}

\* pickle.load raises EOFError, which is no PickleError, on a file that ends
\* before the pickle does
PickleLoadEOF(data) == data.enc \in {"partial", "truncated"}

\* ---- memoized functions: cache(ttl_s, invalidate_if_return)(func)
\* invalidate_if_return is <<>> for the default '__INVALIDATE__'
Wrappers == [name : {"f"}, ttl_s : {1, 2}, invalidate_if_return : {<<>>, <<EmptyDict>>}]
Args == {"a", "b"}

\* key = md5(json.dumps([func.__name__, cache_args, kwargs, ...], sort_keys=True))
KeyOf(w, args) == [name |-> w.name, args |-> args]
Keys == {KeyOf(w, args) : w \in Wrappers, args \in Args}

\* ---- the cache directory
\* _get_file_path(key, ext)
FilePath(key, ext) == [key |-> key, ext |-> ext]

\* a file and, as observers, the value its writer computed and the writer's ttl_s
File(data, orig, wttl) == [mtime |-> now, data |-> data, orig |-> orig, wttl |-> wttl]

Remove(fs, path) == [q \in DOMAIN fs \ {path} |-> fs[q]]
Write(fs, path, f) == [q \in DOMAIN fs \cup {path} |-> IF q = path THEN f ELSE fs[q]]

\* _is_expired(file_path, ttl_ms) with a ttl compared in the wrong unit
IsExpiredSeconds(fs, path, ttl_ms) ==
    IF path \notin DOMAIN fs THEN TRUE
    ELSE (now - fs[path].mtime) >= ttl_ms
\* _is_expired(file_path, ttl_ms)
IsExpired(fs, path, ttl_ms) ==
    IF path \notin DOMAIN fs THEN TRUE
    ELSE (now * MsPerSecond - fs[path].mtime * MsPerSecond) >= ttl_ms

\* a wrapper that never compares the cached value with invalidate_if_return
InvalidatedNever(w, cache_value) == FALSE
\* invalidate_if_return is not '__INVALIDATE__' and cache_value == invalidate_if_return
Invalidated(w, cache_value) ==
    w.invalidate_if_return # <<>> /\ cache_value = w.invalidate_if_return[1]

Lookup(outcome, value, fs) == [outcome |-> outcome, value |-> value, files |-> fs]

\* "Check for and load from JSON cache": hit, or fall through
ReadJson(fs, key, w) ==
    LET path == FilePath(key, ".json") IN
    IF path \in DOMAIN fs /\ ~IsExpired(fs, path, w.ttl_s * MsPerSecond)
    THEN IF fs[path].data.enc # "json"
         THEN Lookup("corrupt", NoValue, Remove(fs, path))     \* JSONDecodeError: os.remove
         ELSE IF Invalidated(w, JsonLoad(fs[path].data))
              THEN Lookup("invalidated", JsonLoad(fs[path].data), fs)
              ELSE Lookup("hit", JsonLoad(fs[path].data), fs)
    ELSE Lookup("absent", NoValue, fs)

\* "Check for and load from Pickle cache": hit, fall through, or the EOFError
\* of pickle.load, which no except clause catches
ReadPickle(fs, key, w) ==
    LET path == FilePath(key, ".pkl") IN
    IF path \in DOMAIN fs /\ ~IsExpired(fs, path, w.ttl_s * MsPerSecond)
    THEN IF PickleLoadEOF(fs[path].data)
         THEN Lookup("raised", NoValue, fs)
         ELSE IF fs[path].data.enc # "pickle"
         THEN Lookup("corrupt", NoValue, Remove(fs, path))     \* UnpicklingError: os.remove
         ELSE IF Invalidated(w, PickleLoad(fs[path].data))
              THEN Lookup("invalidated", PickleLoad(fs[path].data), fs)
              ELSE Lookup("hit", PickleLoad(fs[path].data), fs)
    ELSE Lookup("absent", NoValue, fs)

\* the try block with a pickle branch that leaves the .json file it opened
StoreKeepsJson(fs, key, result, w) ==
    LET json == FilePath(key, ".json")
        pkl == FilePath(key, ".pkl")
    IN  IF JsonSerializable(result)
        THEN Remove(Write(fs, json, File(JsonDump(result), result, w.ttl_s)), pkl)
        ELSE Write(Write(fs, json, File(Partial, result, w.ttl_s)),
                   pkl, File(IF Picklable(result) THEN PickleDump(result) ELSE Partial,
                             result, w.ttl_s))
\* the try block after func(*args, **kwargs): JSON first, pickle on TypeError
Store(fs, key, result, w) ==
    LET json == FilePath(key, ".json")
        pkl == FilePath(key, ".pkl")
    IN  IF JsonSerializable(result)
        THEN Remove(Write(fs, json, File(JsonDump(result), result, w.ttl_s)), pkl)
        ELSE IF Picklable(result)
             THEN Remove(Write(fs, pkl, File(PickleDump(result), result, w.ttl_s)), json)
             ELSE Write(Write(fs, json, File(Partial, result, w.ttl_s)),
                        pkl, File(Partial, result, w.ttl_s))

\* what func(*args, **kwargs) ends in when it does not return: the exception
\* it raises, which the caller of the wrapper receives in place of a value
Raises == Value("raise", "Exception")

\* a handler that stores whatever the call of func ended in
AfterFuncStoresAll(fs, key, result, w) == Store(fs, key, result, w)
\* "result = func(*args, **kwargs)" and the try block that follows it: an
\* exception of func leaves _cache_handler before the store is reached
AfterFunc(fs, key, result, w) ==
    IF result = Raises THEN fs ELSE Store(fs, key, result, w)

\* observer: a file of key as a call finds it: its age in seconds, its
\* content, the value and the ttl_s of its writer
Seen(f) == [age |-> now - f.mtime, data |-> f.data, orig |-> f.orig, wttl |-> f.wttl]
\* observer: the file of key a read would load first
Entry0(fs, key) ==
    IF FilePath(key, ".json") \in DOMAIN fs THEN <<Seen(fs[FilePath(key, ".json")])>>
    ELSE IF FilePath(key, ".pkl") \in DOMAIN fs THEN <<Seen(fs[FilePath(key, ".pkl")])>>
    ELSE <<>>
\* observer: the files of key, by extension
Found(fs, key) ==
    {[ext |-> path.ext, age |-> now - fs[path].mtime, data |-> fs[path].data] :
        path \in {q \in DOMAIN fs : q.key = key}}
\* observer: the files of the other keys are what they were
Frame(fs, fs2, key) ==
    \A q \in DOMAIN fs \cup DOMAIN fs2 :
        q.key # key => q \in DOMAIN fs /\ q \in DOMAIN fs2 /\ fs[q] = fs2[q]

\* os.path.exists(self.cache_disabled_flag) of an instance that does not look
IsCacheDisabledNever == FALSE
\* _is_cache_disabled()
IsCacheDisabled == disabled

\* observer: what a call found (pre, found), how its lookup ended, whether
\* func was invoked, what it returned (computed) and what the caller received
\* (returned), the files of the key afterwards (post, left)
CallRecord(w, args, fs, fs2, lookup, v, returned) ==
    [w |-> w, args |-> args,
     off |-> disabled, stage |-> stage[KeyOf(w, args)],
     pre |-> Entry0(fs, KeyOf(w, args)), found |-> Found(fs, KeyOf(w, args)),
     lookup |-> lookup, invoked |-> lookup \in {"bypass", "invalidated", "miss"},
     computed |-> v, returned |-> returned,
     post |-> Entry0(fs2, KeyOf(w, args)), left |-> Found(fs2, KeyOf(w, args)),
     touched |-> fs2 # fs, frame |-> Frame(fs, fs2, KeyOf(w, args))]

\* observer: whether wrapper(*args) reaches func(*args, **kwargs)
Invokes(w, args) ==
    LET j == ReadJson(files, KeyOf(w, args), w)
    IN  \/ IsCacheDisabled
        \/ /\ j.outcome # "hit"
           /\ ReadPickle(j.files, KeyOf(w, args), w).outcome \notin {"hit", "raised"}

\* wrapper(*args) of a memoized function whose func returns v when invoked:
\* LocalCache.cache.wrapper and _cache_handler
Call(w, args, v) ==
    LET key == KeyOf(w, args)
        j == ReadJson(files, key, w)
        p == ReadPickle(j.files, key, w)
    IN  /\ IF IsCacheDisabled
           THEN /\ files' = files
                /\ last' = CallRecord(w, args, files, files', "bypass", v, v)
                /\ stage' = [stage EXCEPT ![key] = IF @ >= 1 THEN 2 ELSE @]
           ELSE /\ stage' = [stage EXCEPT ![key] = 0]
                /\ IF j.outcome = "hit"
                   THEN /\ files' = j.files
                        /\ last' = CallRecord(w, args, files, files', "hit", v, j.value)
                   ELSE IF p.outcome = "hit"
                   THEN /\ files' = p.files
                        /\ last' = CallRecord(w, args, files, files', "hit", v, p.value)
                   ELSE IF p.outcome = "raised"
                   THEN /\ files' = p.files
                        /\ last' = CallRecord(w, args, files, files', "raised", v, NoValue)
                   ELSE /\ files' = AfterFunc(p.files, key, v, w)
                        /\ last' = CallRecord(w, args, files, files',
                                              IF "invalidated" \in {j.outcome, p.outcome}
                                              THEN "invalidated" ELSE "miss",
                                              v, v)
        /\ UNCHANGED <<now, disabled, thr>>
        /\ UNCHANGED batchVars

\* time passes
Tick ==
    /\ now < MaxTime
    /\ now' = now + 1
    /\ UNCHANGED <<files, last, disabled, stage, thr>>
    /\ UNCHANGED batchVars

\* something other than LocalCache writes over the cache file at path
Corrupt(path, damage) ==
    /\ path \in DOMAIN files
    /\ files[path].data.enc \in {"json", "pickle"}
    /\ files' = Write(files, path, File(damage, NoValue, 0))
    /\ stage' = [stage EXCEPT ![path.key] = 0]
    /\ UNCHANGED <<now, last, disabled, thr>>
    /\ UNCHANGED batchVars

\* observer: the key has a completely written entry
HasComplete(fs, key) ==
    Entry0(fs, key) # <<>> /\ Entry0(fs, key)[1].data.enc \in {"json", "pickle"}

\* a disable_cache that also empties the cache directory
DisableCacheClears ==
    /\ disabled' = TRUE
    /\ files' = EmptyMap
    /\ stage' = [k \in Keys |-> IF stage[k] >= 1 THEN stage[k]
                                ELSE IF HasComplete(files, k) THEN 1 ELSE 0]
    /\ UNCHANGED <<now, last, thr>>
    /\ UNCHANGED batchVars
\* disable_cache(): open(self.cache_disabled_flag, "a").close()
\* stage observes, per key, an entry present at the disable (1) and a call of
\* its signature made while disabled (2), until the next call made enabled
DisableCache ==
    /\ disabled' = TRUE
    /\ stage' = [k \in Keys |-> IF stage[k] >= 1 THEN stage[k]
                                ELSE IF HasComplete(files, k) THEN 1 ELSE 0]
    /\ UNCHANGED <<now, files, last, thr>>
    /\ UNCHANGED batchVars

\* enable_cache(): os.remove(self.cache_disabled_flag), FileNotFoundError passed over
EnableCache ==
    /\ disabled' = FALSE
    /\ UNCHANGED <<now, files, last, stage, thr>>
    /\ UNCHANGED batchVars

\* no SimpleBatchRequester is at work
BatchIdle ==
    /\ requests_list = EmptyMap
    /\ max_workers = 5
    /\ pc = "idle"
    /\ run_no = 0
    /\ results = EmptyMap
    /\ failed_indices = {}
    /\ batch = EmptyMap
    /\ original_index_map = EmptyMap
    /\ fut = EmptyMap
    /\ processed_results = <<>>
    /\ newly_failed = {}
    /\ calls = PerPass(0)
    /\ net_calls = EmptyMap
    /\ cached_calls = EmptyMap
    /\ cached_fail = {}
    /\ http_out = PerPass("none")
    /\ raised = [p \in 1 .. 2 |-> {}]
    /\ cache_ops = EmptyMap
    /\ prev_failed = {}

InitCache ==
    /\ now = 0
    /\ files = EmptyMap
    /\ last = None
    /\ disabled = FALSE
    /\ stage = [k \in Keys |-> 0]
    /\ thr = EmptyMap
    /\ BatchIdle

\* memoized calls and the clock
NextCache ==
    \/ \E w \in Wrappers, args \in Args :
          \E v \in IF Invokes(w, args) THEN MemoValues ELSE {NoValue} : Call(w, args, v)
    \/ Tick

SpecCache == InitCache /\ [][NextCache]_vars

\* one memoized function with the default invalidate_if_return, returning
\* values that json.dump or pickle.dump can write
PlainWrappers == {w \in Wrappers : w.ttl_s = 2 /\ w.invalidate_if_return = <<>>}
StorableValues == {v \in MemoValues : v.type \in {"tuple", "bytes"}}

\* memoized calls, the clock and files written over from outside
NextCorrupt ==
    \/ \E w \in PlainWrappers, args \in Args :
          \E v \in IF Invokes(w, args) THEN StorableValues ELSE {NoValue} : Call(w, args, v)
    \/ Tick
    \/ \E path \in DOMAIN files, damage \in Damages : Corrupt(path, damage)

SpecCorrupt == InitCache /\ [][NextCorrupt]_vars

\* memoized calls, the clock and the global switch
NextSwitch ==
    \/ \E w \in PlainWrappers, args \in Args :
          \E v \in IF Invokes(w, args) THEN MemoValues ELSE {NoValue} : Call(w, args, v)
    \/ Tick
    \/ DisableCache
    \/ EnableCache

SpecSwitch == InitCache /\ [][NextSwitch]_vars

\* ------------------------------------------------ the marker file, call by call
\* The marker file .py-local-cache-disabled of the cache root is all there is
\* to the disabled state: a LocalCache object holds the path of the marker
\* (cache_disabled_flag) and no flag of its own.  Processes names the
\* processes whose LocalCache singleton points at the same cache root.
Processes == {1, 2}

\* open(self.cache_disabled_flag, "a").close(): creates the file, or opens the
\* one that is there; exc tells whether the call raises
OpenAppend(exists) == [exists |-> TRUE, exc |-> FALSE]
\* os.remove(self.cache_disabled_flag): FileNotFoundError without the file
OsRemove(exists) == [exists |-> FALSE, exc |-> ~exists]

\* enable_cache() without its "except FileNotFoundError: pass"
EnableOutcomeUncaught(exists) == OsRemove(exists)
\* enable_cache(): the FileNotFoundError of os.remove is passed over
EnableOutcome(exists) == [OsRemove(exists) EXCEPT !.exc = FALSE]

\* disable_cache()
DisableOutcome(exists) == OpenAppend(exists)

\* observer: a call of disable_cache or enable_cache by process p, the
\* marker before and after it, and whether the call raised
SwitchRecord(op, p, outcome) ==
    [op |-> op, process |-> p, before |-> disabled, after |-> outcome.exists,
     exc |-> outcome.exc]

\* disable_cache() called in process p
DisableCacheBy(p) ==
    /\ disabled' = DisableOutcome(disabled).exists
    /\ last' = SwitchRecord("disable", p, DisableOutcome(disabled))
    /\ UNCHANGED <<now, files, stage, thr>>
    /\ UNCHANGED batchVars

\* enable_cache() called in process p
EnableCacheBy(p) ==
    /\ disabled' = EnableOutcome(disabled).exists
    /\ last' = SwitchRecord("enable", p, EnableOutcome(disabled))
    /\ UNCHANGED <<now, files, stage, thr>>
    /\ UNCHANGED batchVars

\* memoized calls made in any of the processes, the clock, and the switch
\* operated from every process
NextMarker ==
    \/ \E w \in PlainWrappers, args \in Args :
          \E v \in IF Invokes(w, args) THEN StorableValues ELSE {NoValue} : Call(w, args, v)
    \/ Tick
    \/ \E p \in Processes : DisableCacheBy(p)
    \/ \E p \in Processes : EnableCacheBy(p)

SpecMarker == InitCache /\ [][NextMarker]_vars

\* the outcomes of a wrapped function that returns or raises
FuncOutcomes == {v \in MemoValues : JsonSerializable(v)} \cup {Value("bytes", "raw"), Raises}

\* memoized calls whose function may raise, and the clock
NextRaise ==
    \/ \E w \in Wrappers, args \in Args :
          \E v \in IF Invokes(w, args) THEN FuncOutcomes ELSE {NoValue} : Call(w, args, v)
    \/ Tick

SpecRaise == InitCache /\ [][NextRaise]_vars

\* ================================================== the key of a memoized call
\* Memoized functions by __qualname__, written as its dot-separated parts:
\* a method of class C, a module-level function, a function defined inside
\* another function, a static method of class C.
Method == <<"C", "m">>
ModuleFunction == <<"g">>
NestedFunction == <<"outer", "<locals>", "h">>
StaticMethod == <<"C", "s">>
Functions == {Method, ModuleFunction, NestedFunction, StaticMethod}

\* func.__name__
NameOf(qualname) == qualname[Len(qualname)]

\* instance_id values: a Python value by its type and by the text str() gives
PyValue(type, text) == [type |-> type, text |-> text]
Str(value) == value.text

\* receiver objects: obj names the object, instance_id is <<>> for an object
\* without the attribute
Receiver(obj, instance_id) == [obj |-> obj, instance_id |-> instance_id]
Receivers ==
    {Receiver("r1", <<>>), Receiver("r2", <<>>),
     Receiver("r3", <<PyValue("str", "x")>>), Receiver("r4", <<PyValue("str", "x")>>),
     Receiver("r5", <<PyValue("int", "1")>>), Receiver("r6", <<PyValue("str", "1")>>),
     Receiver("r7", <<PyValue("str", "")>>)}
IsReceiver(x) == x \in Receivers

\* the calls made: m on every receiver, the three other functions with
\* two strings as positional arguments
KeyCalls ==
    {[func |-> Method, args |-> <<r, PyValue("str", "a")>>] : r \in Receivers} \cup
    {[func |-> f, args |-> <<PyValue("str", x), PyValue("str", "z")>>] :
        f \in {ModuleFunction, NestedFunction, StaticMethod}, x \in Args}

\* is_method = '.' in func.__qualname__
IsMethod(qualname) == Len(qualname) > 1

\* hasattr(instance, 'instance_id'): str(instance.instance_id), else "__DEFAULT__"
InstanceId(instance) ==
    IF IsReceiver(instance) /\ instance.instance_id # <<>>
    THEN Str(instance.instance_id[1])
    ELSE "__DEFAULT__"

\* key_components of wrapper(*args): [func.__name__, cache_args, kwargs] and,
\* "if instance_id:", the instance_id; the md5 of their JSON text is taken
\* to be one-to-one
WrapperKey(func, args) ==
    LET is_method == IsMethod(func)
        instance_id == IF is_method /\ args # <<>> THEN InstanceId(args[1]) ELSE ""
        cache_args == IF is_method /\ args # <<>> THEN Tail(args) ELSE args
    IN  IF instance_id # ""
        THEN [name |-> NameOf(func), args |-> cache_args, instance_id |-> <<instance_id>>]
        ELSE [name |-> NameOf(func), args |-> cache_args, instance_id |-> <<>>]

\* the wrappers of KeyCalls: cache(ttl_s=1) with the default invalidate_if_return
KeyWrapper(func) == [name |-> NameOf(func), ttl_s |-> 1, invalidate_if_return |-> <<>>]

\* what func computes: a list naming the receiver, or the first argument, it
\* was called with
Who(args) == IF IsReceiver(args[1]) THEN args[1].obj ELSE Str(args[1])
ResultOf(call) == Value("list", Who(call.args))

\* observer: who computed the entries in the cache directory
Writers(fs) == {fs[q].orig.detail : q \in DOMAIN fs}

\* wrapper(*args) and _cache_handler for one call of KeyCalls
MemoCall(call) ==
    LET key == WrapperKey(call.func, call.args)
        w == KeyWrapper(call.func)
        j == ReadJson(files, key, w)
        p == ReadPickle(j.files, key, w)
        hit == ~IsCacheDisabled /\ "hit" \in {j.outcome, p.outcome}
        value == IF j.outcome = "hit" THEN j.value ELSE p.value
    IN  /\ files' = IF IsCacheDisabled THEN files
                    ELSE IF hit THEN files
                    ELSE AfterFunc(p.files, key, ResultOf(call), w)
        /\ last' = [call |-> call, key |-> key, invoked |-> ~hit,
                    returned |-> IF hit THEN value ELSE ResultOf(call),
                    pre |-> Writers(files)]
        /\ UNCHANGED <<now, disabled, stage, thr>>
        /\ UNCHANGED batchVars

NextKey ==
    \/ \E call \in KeyCalls : IsMethod(call.func) /\ MemoCall(call)
    \/ \E call \in KeyCalls : ~IsMethod(call.func) /\ MemoCall(call)

SpecKey == InitCache /\ [][NextKey]_vars

\* =============================================================== cache_url
\* the URLs cache_url is called with: one that is fetched, and the ones the
\* method hands back at once (empty, file://, http://localhost)
Urls == {"http://u", "", "file://x", "http://localhost/x"}
\* not url or url.startswith("file://") or url.startswith("http://localhost")
Cacheable(url) == url \notin {"", "file://x", "http://localhost/x"}

\* url_hash = hashlib.md5(url.encode()).hexdigest()
UrlHash(url) == [name |-> "md5", args |-> url]

\* response.content of a GET that succeeds: bytes that are the text of a JSON
\* object, or bytes that are no JSON text
Bodies == {"{}", "raw"}
\* how requests.get and raise_for_status end: a body, or an exception
GetOutcomes == Bodies \cup {"RequestException"}
\* fetch_url_content(): response.content, or url after any exception
FetchUrlContent(url, get) ==
    IF get \in Bodies THEN Value("bytes", get) ELSE Value("str", url)

\* how requests.head ends: a Content-Type header, or a RequestException
HeadOutcomes == {"image/png", "application/json", "RequestException"}
\* content_type, "" after a RequestException
ContentType(head) == IF head = "RequestException" THEN "" ELSE head
\* the extension chosen for the final file
Ext(content_type) ==
    CASE content_type = "image/jpeg" -> ".jpg"
      [] content_type = "image/png" -> ".png"
      [] content_type = "application/json" -> ".json"
      [] content_type = "text/html" -> ".html"
      [] OTHER -> ""

\* what open(final_cache_path, "wb") and f.write(cached_data) leave in the
\* file: the bytes, which json.load reads as JSON when they are JSON text;
\* f.write raises TypeError for a value that is no bytes, the file then
\* staying as open left it, empty
RawWrite(cached_data) ==
    IF cached_data.type # "bytes" THEN Truncated
    ELSE IF cached_data.detail = "{}" THEN JsonDump(EmptyDict)
    ELSE Garbage

\* the wrapper values _cache_handler is called with by cache_url
UrlWrapper(ttl_s) ==
    [name |-> "fetch_url_content", ttl_s |-> ttl_s, invalidate_if_return |-> <<>>]
UrlTtls == {1}

\* observer: a call of cache_url, the files of its key before and after,
\* what _cache_handler gave back, and what the caller got: a value
\* returned, or an exception
UrlRecord(url, ttl_s, fs, fs2, cached_data, outcome, value) ==
    [url |-> url, ttl_s |-> ttl_s, off |-> disabled,
     found |-> Found(fs, UrlHash(url)), left |-> Found(fs2, UrlHash(url)),
     cached_data |-> cached_data, outcome |-> outcome, value |-> value]

\* cache_url(url, ttl_s) where a GET, if made, ends in get and a HEAD, if
\* made, ends in head
CacheUrl(url, ttl_s, get, head) ==
    LET key == UrlHash(url)
        w == UrlWrapper(ttl_s)
        j == ReadJson(files, key, w)
        p == ReadPickle(j.files, key, w)
        result == FetchUrlContent(url, get)
        cached_data == IF j.outcome = "hit" THEN j.value
                       ELSE IF p.outcome = "hit" THEN p.value
                       ELSE result
        fs1 == IF j.outcome = "hit" THEN j.files
               ELSE IF p.outcome = "hit" THEN p.files
               ELSE AfterFunc(p.files, key, result, w)
        final_cache_path == FilePath(key, Ext(ContentType(head)))
        fs2 == Write(fs1, final_cache_path, File(RawWrite(cached_data), cached_data, ttl_s))
    IN  /\ IF IsCacheDisabled \/ ~Cacheable(url)
           THEN /\ files' = files
                /\ last' = UrlRecord(url, ttl_s, files, files', NoValue, "returned",
                                     Value("str", url))
           ELSE IF j.outcome # "hit" /\ p.outcome = "raised"
           THEN /\ files' = p.files
                /\ last' = UrlRecord(url, ttl_s, files, files', NoValue, "raised",
                                     Value("exception", "EOFError"))
           ELSE IF cached_data = Value("str", url)
           THEN /\ files' = fs1
                /\ last' = UrlRecord(url, ttl_s, files, files', cached_data, "returned",
                                     Value("str", url))
           ELSE IF cached_data.type = "bytes"
           THEN /\ files' = fs2
                /\ last' = UrlRecord(url, ttl_s, files, files', cached_data, "returned",
                                     Value("path", final_cache_path.ext))
           ELSE /\ files' = fs2
                /\ last' = UrlRecord(url, ttl_s, files, files', cached_data, "raised",
                                     Value("exception", "TypeError"))
        /\ UNCHANGED <<now, disabled, stage, thr>>
        /\ UNCHANGED batchVars

\* calls of cache_url and the clock
NextUrl ==
    \/ \E url \in Urls, ttl_s \in UrlTtls, get \in GetOutcomes, head \in HeadOutcomes :
          CacheUrl(url, ttl_s, get, head)
    \/ Tick

SpecUrl == InitCache /\ [][NextUrl]_vars

\* ===================================== two threads in _cache_handler at once
\* Two threads call one memoized function with the same arguments.  Each
\* os.path.exists, os.path.getmtime, open, load, dump-and-close and os.remove
\* of _cache_handler is one step of its thread.
Threads == {1, 2}
RaceWrapper == [name |-> "f", ttl_s |-> 1, invalidate_if_return |-> <<>>]
RaceKey == KeyOf(RaceWrapper, "a")
RacePath(ext) == FilePath(RaceKey, ext)
\* the values func can return to either thread
RaceValues == {v \in MemoValues : Picklable(v)}

\* a file with, as ino, the identity of what the path names: 0 for a file
\* that was there before, t for a file created by thread t
RaceFile(data, orig, ino) ==
    [mtime |-> now, data |-> data, orig |-> orig, wttl |-> RaceWrapper.ttl_s, ino |-> ino]

\* the cache directory the two calls start from: no entry, or an expired one
RaceStartFiles ==
    {EmptyMap} \cup
    {Write(EmptyMap, RacePath(".json"),
           [RaceFile(JsonDump(v), v, 0) EXCEPT !.mtime = 0]) : v \in {EmptyDict}} \cup
    {Write(EmptyMap, RacePath(".pkl"),
           [RaceFile(PickleDump(v), v, 0) EXCEPT !.mtime = 0]) : v \in {Value("bytes", "raw")}}

\* a thread: where it stands (step, ext), what func returned to it (v), the
\* files it holds open (fd: extension -> ino), and how its call ended
ThreadStart ==
    [step |-> "exists", ext |-> ".json", v |-> NoValue,
     fd |-> [e \in {".json", ".pkl"} |-> <<>>], out |-> "none", ret |-> NoValue]

At(t, step, ext) == t \in DOMAIN thr /\ thr[t].step = step /\ thr[t].ext = ext
Goto(t, step, ext) == [thr EXCEPT ![t].step = step, ![t].ext = ext]
\* the rest of the lookup after the .json file, and after the .pkl file
AfterRead(t, ext) ==
    IF ext = ".json" THEN Goto(t, "exists", ".pkl") ELSE Goto(t, "compute", "")
\* the call returns ret, or an exception leaves it
Finish(t, out, ret) ==
    [thr EXCEPT ![t].step = "done", ![t].ext = "", ![t].out = out, ![t].ret = ret]

RaceFrame == UNCHANGED <<now, last, disabled, stage>> /\ UNCHANGED batchVars

\* if os.path.exists(json_cache_path) / if os.path.exists(pickle_cache_path)
RaceExists(t, ext) ==
    /\ At(t, "exists", ext)
    /\ thr' = IF RacePath(ext) \in DOMAIN files
              THEN Goto(t, "expired", ext) ELSE AfterRead(t, ext)
    /\ UNCHANGED files
    /\ RaceFrame

\* if not self._is_expired(path, ttl_ms): a FileNotFoundError counts as expired
RaceExpired(t, ext) ==
    /\ At(t, "expired", ext)
    /\ thr' = IF IsExpired(files, RacePath(ext), RaceWrapper.ttl_s * MsPerSecond)
              THEN AfterRead(t, ext) ELSE Goto(t, "load", ext)
    /\ UNCHANGED files
    /\ RaceFrame

\* with open(path) as f: cache_value = json.load(f) / pickle.load(f)
\* FileNotFoundError is an IOError and goes to the except clause, as do
\* JSONDecodeError and UnpicklingError; EOFError leaves the handler
RaceLoad(t, ext) ==
    /\ At(t, "load", ext)
    /\ thr' = IF RacePath(ext) \notin DOMAIN files THEN Goto(t, "remove", ext)
              ELSE LET data == files[RacePath(ext)].data IN
                   IF ext = ".json"
                   THEN IF data.enc = "json" THEN Finish(t, "returned", JsonLoad(data))
                        ELSE Goto(t, "remove", ext)
                   ELSE IF data.enc = "pickle" THEN Finish(t, "returned", PickleLoad(data))
                        ELSE IF PickleLoadEOF(data) THEN Finish(t, "raised", NoValue)
                        ELSE Goto(t, "remove", ext)
    /\ UNCHANGED files
    /\ RaceFrame

\* os.remove(path) inside the except clause: its own FileNotFoundError is
\* raised outside every try block
RaceRemove(t, ext) ==
    /\ At(t, "remove", ext)
    /\ IF RacePath(ext) \in DOMAIN files
       THEN /\ files' = Remove(files, RacePath(ext))
            /\ thr' = AfterRead(t, ext)
       ELSE /\ thr' = Finish(t, "raised", NoValue)
            /\ UNCHANGED files
    /\ RaceFrame

\* result = func(*args, **kwargs)
RaceCompute(t, v) ==
    /\ At(t, "compute", "")
    /\ thr' = [thr EXCEPT ![t].v = v, ![t].step = "open", ![t].ext = ".json"]
    /\ UNCHANGED files
    /\ RaceFrame

\* open(path, "w") / open(path, "wb"): creates the file or empties it
RaceOpen(t, ext) ==
    /\ At(t, "open", ext)
    /\ LET f == IF RacePath(ext) \in DOMAIN files
                THEN [files[RacePath(ext)] EXCEPT !.data = Truncated, !.mtime = now,
                                                 !.orig = NoValue]
                ELSE RaceFile(Truncated, NoValue, t)
       IN  /\ files' = Write(files, RacePath(ext), f)
           /\ thr' = [thr EXCEPT ![t].fd[ext] = <<f.ino>>, ![t].step = "dump"]
    /\ RaceFrame

\* what a file holds after new is written at offset 0 over old
Overwritten(old, new) ==
    IF old.enc = "json" /\ new.enc = "json" /\ Len(old.detail) > Len(new.detail)
    THEN Garbage ELSE new
\* the buffered bytes reach the file the descriptor was opened on, if the
\* path still names it
Flushed(fs, path, fd, data, v) ==
    IF path \in DOMAIN fs /\ <<fs[path].ino>> = fd
    THEN Write(fs, path, [fs[path] EXCEPT !.data = Overwritten(@, data),
                                          !.mtime = now, !.orig = v])
    ELSE fs

\* json.dump(result, f) / pickle.dump(result, f) and the close of the file
RaceDump(t, ext) ==
    /\ At(t, "dump", ext)
    /\ IF ext = ".json"
       THEN IF JsonSerializable(thr[t].v)
            THEN /\ files' = Flushed(files, RacePath(ext), thr[t].fd[ext],
                                     JsonDump(thr[t].v), thr[t].v)
                 /\ thr' = Goto(t, "check", ".pkl")
            ELSE /\ thr' = Goto(t, "open", ".pkl")        \* TypeError
                 /\ UNCHANGED files
       ELSE /\ files' = Flushed(files, RacePath(ext), thr[t].fd[ext],
                                PickleDump(thr[t].v), thr[t].v)
            /\ thr' = Goto(t, "check", ".json")
    /\ RaceFrame

\* if os.path.exists(<the path of the other format>)
RaceCheck(t, ext) ==
    /\ At(t, "check", ext)
    /\ thr' = IF RacePath(ext) \in DOMAIN files
              THEN Goto(t, "unlink", ext) ELSE Goto(t, "return", "")
    /\ UNCHANGED files
    /\ RaceFrame

\* os.remove(<the path of the other format>): a FileNotFoundError is caught
\* by "except Exception" and printed
RaceUnlink(t, ext) ==
    /\ At(t, "unlink", ext)
    /\ files' = IF RacePath(ext) \in DOMAIN files THEN Remove(files, RacePath(ext))
                ELSE files
    /\ thr' = Goto(t, "return", "")
    /\ RaceFrame

\* return result
RaceReturn(t) ==
    /\ At(t, "return", "")
    /\ thr' = Finish(t, "returned", thr[t].v)
    /\ UNCHANGED files
    /\ RaceFrame

InitRace ==
    /\ now = 1
    /\ files \in RaceStartFiles
    /\ thr = [t \in Threads |-> ThreadStart]
    /\ last = None
    /\ disabled = FALSE
    /\ stage = [k \in Keys |-> 0]
    /\ BatchIdle

NextRace ==
    \/ \E t \in Threads, ext \in {".json", ".pkl"} : RaceExists(t, ext)
    \/ \E t \in Threads, ext \in {".json", ".pkl"} : RaceExpired(t, ext)
    \/ \E t \in Threads, ext \in {".json", ".pkl"} : RaceLoad(t, ext)
    \/ \E t \in Threads, ext \in {".json", ".pkl"} : RaceRemove(t, ext)
    \/ \E t \in Threads, v \in RaceValues : RaceCompute(t, v)
    \/ \E t \in Threads, ext \in {".json", ".pkl"} : RaceOpen(t, ext)
    \/ \E t \in Threads, ext \in {".json", ".pkl"} : RaceDump(t, ext)
    \/ \E t \in Threads, ext \in {".json", ".pkl"} : RaceCheck(t, ext)
    \/ \E t \in Threads, ext \in {".json", ".pkl"} : RaceUnlink(t, ext)
    \/ \E t \in Threads : RaceReturn(t)

SpecRace == InitRace /\ [][NextRace]_vars

\* ================================================================ claims
Done == pc = "done"
HasEntry(i) == ~IsNone(results[i])
ErrorShaped(i) == HasEntry(i) /\ "error" \in DOMAIN results[i].result
SuccessShaped(i) ==
    HasEntry(i) /\ {"status_code", "content"} \subseteq DOMAIN results[i].result
Retried == raised[1] # {}
CallsOf(i) == calls[1][i] + calls[2][i]

\* C1: when every worker that raised in the first pass returns normally in
\* the retry pass, run returns a list of exactly N entries and the entry at
\* position i has index i, whatever the completion order in either pass.
C1_IndexAlignment ==
    (Done /\ raised[2] = {}) =>
        /\ DOMAIN results = Indices
        /\ \A i \in Indices : HasEntry(i) /\ results[i].index = i

\* a run in which a worker failed first and succeeded on retry under a
\* temporary index different from its own
C1_Witness ==
    /\ Done /\ Retried /\ raised[2] = {}
    /\ \E t \in DOMAIN original_index_map : original_index_map[t] # t
    /\ \A i \in Indices : HasEntry(i) /\ results[i].index = i

\* C2: the returned list never has a gap; a request whose worker raises in
\* the first pass and again in the retry pass has, at its position, an entry
\* with its index whose result carries an error.
C2_NoGap ==
    Done =>
        \A i \in Indices :
            /\ HasEntry(i)
            /\ results[i].index = i
            /\ (i \in raised[1] /\ i \in raised[2] => ErrorShaped(i))

\* the pass whose worker invocation decided the fate of request i
FinalPass(i) == IF calls[2][i] > 0 THEN 2 ELSE 1
ItemFailed(i) ==
    i \in raised[FinalPass(i)] \/ http_out[FinalPass(i)][i] \in {"failure", "other"}

\* C3: run never raises; it returns a list, and the failure of an item is
\* visible only as an error key inside that item's result.
C3_FailureIsErrorKey ==
    Done =>
        /\ DOMAIN results = Indices
        /\ \A i \in Indices : HasEntry(i) /\ (ItemFailed(i) <=> ErrorShaped(i))

\* C4: the worker of request i is invoked in the retry pass iff its
\* first-pass worker raised; a request whose first-pass worker returned a
\* result is invoked exactly once in the run.
C4_RetryScoping ==
    /\ \A i \in Indices : calls[2][i] > 0 => i \in raised[1]
    /\ \A i \in Indices : calls[1][i] <= 1 /\ calls[2][i] <= 1
    /\ Done => \A i \in Indices :
                  /\ calls[1][i] = 1
                  /\ (calls[2][i] = 1 <=> i \in raised[1])
                  /\ (i \notin raised[1] => CallsOf(i) = 1)

\* a finished run that retried one request and left another alone
C4_Witness ==
    /\ Done
    /\ \E i, j \in Indices : /\ i \in raised[1] /\ calls[2][i] = 1
                             /\ j \notin raised[1] /\ CallsOf(j) = 1

\* C5: no worker is invoked more than twice in a run, and a run whose worker
\* invocations all terminate returns after at most two passes.
C5_RetryOnce ==
    /\ [](\A i \in Indices : CallsOf(i) <= 2)
    /\ ((pc \in {"pass1", "retry"}) ~> Done)

\* a run that returned after a retry pass in which a worker raised again
C5_Witness ==
    Done /\ raised[2] # {} /\ \A i \in raised[2] : CallsOf(i) = 2

\* the futures of the current pass that have finished after an HTTP call
Answered == {t \in DOMAIN fut : /\ fut[t].st \in {"done", "collected"}
                                /\ http_out[Pass][OriginalIndex(t)] # "none"}
ReturnedError(t) == ~fut[t].out.exc /\ "error" \in DOMAIN fut[t].out.value.result
ReturnedContent(t) ==
    ~fut[t].out.exc /\ {"status_code", "content"} \subseteq DOMAIN fut[t].out.value.result

\* what C6 says of a request whose HTTP call ended in a 4xx/5xx status or a
\* transport failure: an error entry at its index, not failed, not retried
FailureIsResult ==
    /\ \A t \in Answered :
          http_out[Pass][OriginalIndex(t)] = "failure" =>
              ReturnedError(t) /\ OriginalIndex(t) \notin raised[Pass]
    /\ Done => \A i \in Indices :
          /\ http_out[1][i] = "failure" =>
                ErrorShaped(i) /\ i \notin failed_indices /\ calls[2][i] = 0
          /\ http_out[2][i] = "failure" => ErrorShaped(i) /\ i \notin newly_failed

\* C6 as stated: a 4xx/5xx status or a transport failure yields an error
\* entry at the index, which is neither failed nor retried; any other outcome
\* of the HTTP call yields a result with status_code and content.
C6_AnyOtherOutcomeHasContent ==
    /\ FailureIsResult
    /\ \A t \in Answered :
          http_out[Pass][OriginalIndex(t)] # "failure" => ReturnedContent(t)

\* C6 as amended: a 4xx/5xx status or a transport failure yields an error
\* entry at the index, which is neither failed nor retried; a response that
\* is decoded yields a result with status_code and content; any other end of
\* the call yields an error result or an exception that leaves the worker.
C6_HttpOutcomes ==
    /\ FailureIsResult
    /\ \A t \in Answered :
          /\ http_out[Pass][OriginalIndex(t)] = "response" => ReturnedContent(t)
          /\ http_out[Pass][OriginalIndex(t)] = "other" =>
                ReturnedError(t) \/ OriginalIndex(t) \in raised[Pass]
    /\ Done => \A i \in Indices :
          http_out[FinalPass(i)][i] = "response" => SuccessShaped(i)

\* a finished run with one request answered by an error status and another
\* by a decoded response
C6_Witness ==
    /\ Done
    /\ \E i, j \in Indices : /\ http_out[1][i] = "failure" /\ ErrorShaped(i)
                             /\ calls[2][i] = 0
                             /\ http_out[1][j] = "response" /\ SuccessShaped(j)

\* C7: a request spec with cache_time that is run twice in sequence, the
\* network answering, makes exactly one network call in total, and the second
\* run returns the stored result.
C7_OneNetworkCall ==
    (Done /\ run_no >= 2) =>
        \A i \in Indices :
            (requests_list[i].cache_time # <<>> /\ i \notin cached_fail) =>
                cached_calls[i] = 1 /\ SuccessShaped(i)

\* Utils.hash(request_data)
RequestHash(request_data) == [sha256 |-> request_data]

\* a request with cache_time whose hash has an unexpired file in the cache
CacheHit(i) ==
    /\ requests_list[i].cache_time # <<>>
    /\ \E path \in DOMAIN files :
          /\ path.key = RequestHash(requests_list[i])
          /\ ~IsExpired(files, path, requests_list[i].cache_time[1] * MsPerSecond)

RECURSIVE Sum(_, _)
Sum(f, S) == IF S = {} THEN 0
             ELSE LET x == CHOOSE x \in S : TRUE IN f[x] + Sum(f, S \ {x})

\* C8: in a batch, every request with cache_time whose hash is in the cache
\* makes no network call and returns the cached entry at its position without
\* an error key; the live network calls of the run are as many as the
\* requests without such a hit (no call being repeated by a retry).
C8_LiveCallsAreMisses ==
    Done =>
        /\ \A i \in Indices : CacheHit(i) => net_calls[i] = 0 /\ SuccessShaped(i)
        /\ (\A i \in Indices : http_out[1][i] # "other") =>
              Sum(net_calls, Indices) = Cardinality({i \in Indices : ~CacheHit(i)})

\* C9 and C10 speak of a call that found a completely written entry
FoundEntry ==
    ~IsNone(last) /\ last.pre # <<>> /\ last.pre[1].data.enc \in {"json", "pickle"}
Decoded(data) == IF data.enc = "json" THEN JsonLoad(data) ELSE PickleLoad(data)

\* C9: once a memoized call has missed, computed v and stored it, a call with
\* the same signature that follows at once returns v and does not invoke the
\* wrapped function (the invalidate sentinel apart).
C9_RoundTrip ==
    (/\ FoundEntry
     /\ last.pre[1].age = 0
     /\ last.w.ttl_s > 0
     /\ ~Invalidated(last.w, last.pre[1].orig)) =>
        ~last.invoked /\ last.returned = last.pre[1].orig

\* C10: an entry stored by a memoized function with ttl T is found by every
\* call of it made less than T after the write (and returned without invoking
\* the function unless it equals the invalidate sentinel), and is a miss, the
\* function being invoked again, for every call made more than T after it.
C10_Expiry ==
    (FoundEntry /\ last.pre[1].wttl = last.w.ttl_s) =>
        /\ last.pre[1].age < last.w.ttl_s =>
              /\ last.lookup \in {"hit", "invalidated"}
              /\ last.lookup = "invalidated" <=> Invalidated(last.w, Decoded(last.pre[1].data))
              /\ last.lookup = "hit" => ~last.invoked /\ last.returned = Decoded(last.pre[1].data)
        /\ last.pre[1].age > last.w.ttl_s => last.lookup = "miss" /\ last.invoked

\* a call made more than T after the write, which missed and recomputed
C10_Witness ==
    /\ FoundEntry /\ last.pre[1].wttl = last.w.ttl_s
    /\ last.pre[1].age > last.w.ttl_s
    /\ last.lookup = "miss" /\ last.invoked

\* the last call was made with caching enabled and went through to func
Stored == ~IsNone(last) /\ last.lookup \in {"miss", "invalidated"}
\* the last call found a completely written .pkl entry of its own ttl
FoundPickle ==
    FoundEntry /\ last.pre[1].data.enc = "pickle" /\ last.pre[1].wttl = last.w.ttl_s

Damaged(found) ==
    {e \in found : e.data.enc \in {"garbage", "truncated"} /\ e.age < last.w.ttl_s}

\* C12: a call that finds the .json or .pkl file of its key unreadable
\* treats it as a miss: no exception reaches the caller, the function is
\* invoked and its result returned, the unreadable file is gone afterwards,
\* and the files of every other key are left as they were.
C12_CorruptionIsMiss ==
    (~IsNone(last) /\ Damaged(last.found) # {}) =>
        /\ last.lookup = "miss"
        /\ last.invoked /\ last.returned = last.computed
        /\ Damaged(last.left) = {}
        /\ last.frame

\* the last call found what a store that failed in both formats left behind
FoundFailedStore == ~IsNone(last) /\ \E e \in last.found : e.data.enc = "partial"

\* C13: a call whose result neither json.dump nor pickle.dump can write
\* returns the result to its caller without an exception, and the next call
\* with the same signature is not held up by it: it is a miss that invokes
\* the function, returns its result and, the result being writable, stores it.
C13_WriteFailureAbsorbed ==
    /\ (Stored /\ ~JsonSerializable(last.computed) /\ ~Picklable(last.computed)) =>
          last.returned = last.computed
    /\ FoundFailedStore =>
          /\ last.lookup = "miss"
          /\ last.invoked /\ last.returned = last.computed
          /\ Picklable(last.computed) =>
                /\ last.post # <<>>
                /\ last.post[1].data.enc \in {"json", "pickle"}
                /\ last.post[1].orig = last.computed

\* C14: a call of a memoized function made while the marker file exists
\* invokes the wrapped function and returns its result, and leaves every
\* file of the cache directory as it was: the entry of its key is neither
\* returned nor replaced.
C14_DisabledBypass ==
    (~IsNone(last) /\ last.off) =>
        /\ last.lookup = "bypass"
        /\ last.invoked /\ last.returned = last.computed
        /\ ~last.touched /\ last.post = last.pre

\* a call made while disabled whose key had an unexpired entry holding
\* another value than the one the function returned
C14_Witness ==
    /\ FoundEntry /\ last.off
    /\ last.pre[1].age < last.w.ttl_s
    /\ last.returned # Decoded(last.pre[1].data)
    /\ last.returned = last.computed /\ last.post = last.pre

\* the last call was the first one made enabled with its signature since a
\* disable_cache that found a completely written entry of its key
FirstSinceEnable == ~IsNone(last) /\ ~last.off /\ last.stage >= 1

\* C15: the entry a key had when disable_cache was called is still there at
\* the first call of its signature after enable_cache, whatever calls were
\* made while disabled; not yet expired, it is returned without invoking the
\* wrapped function.
C15_EnableRestores ==
    FirstSinceEnable =>
        /\ FoundEntry
        /\ (/\ last.pre[1].age < last.w.ttl_s
            /\ ~Invalidated(last.w, Decoded(last.pre[1].data))) =>
              /\ last.lookup = "hit"
              /\ ~last.invoked
              /\ last.returned = Decoded(last.pre[1].data)

\* a hit after enable_cache on an entry whose signature was also called
\* while caching was disabled
C15_Witness ==
    /\ FirstSinceEnable /\ last.stage = 2
    /\ last.lookup = "hit" /\ last.returned = Decoded(last.pre[1].data)

\* the last call was made by a function given an invalidate_if_return value
\* and found a completely written, unexpired entry
FoundWithSentinel ==
    FoundEntry /\ last.w.invalidate_if_return # <<>> /\ last.pre[1].age < last.w.ttl_s

\* C16: for a function given invalidate_if_return = s, a cached value equal
\* to s is a miss (the function is invoked, its result returned and, being
\* writable, stored as a fresh entry of the function's ttl), and a cached
\* unexpired value that differs from s is returned without an invocation.
C16_InvalidateSentinel ==
    FoundWithSentinel =>
        IF Decoded(last.pre[1].data) = last.w.invalidate_if_return[1]
        THEN /\ last.lookup = "invalidated"
             /\ last.invoked /\ last.returned = last.computed
             /\ Picklable(last.computed) =>
                   /\ last.post # <<>>
                   /\ last.post[1].orig = last.computed
                   /\ last.post[1].age = 0 /\ last.post[1].wttl = last.w.ttl_s
        ELSE /\ last.lookup = "hit"
             /\ ~last.invoked
             /\ last.returned = Decoded(last.pre[1].data)

\* a call that found the sentinel cached, invoked the function and stored
\* another value in its place
C16_Witness ==
    /\ FoundWithSentinel /\ last.lookup = "invalidated"
    /\ last.computed # last.w.invalidate_if_return[1]
    /\ last.post # <<>> /\ last.post[1].orig = last.computed

BothWrote == \A t \in Threads : thr[t].step = "done" /\ thr[t].v # NoValue
\* what the complete file of either thread's value looks like
CompleteWrites ==
    {JsonDump(thr[t].v) : t \in {u \in Threads : JsonSerializable(thr[u].v)}} \cup
    {PickleDump(thr[t].v) : t \in {u \in Threads : ~JsonSerializable(thr[u].v)}}

\* C18: with two threads inside the cache on one key, under every
\* interleaving of their steps, no exception reaches either caller, and when
\* both have missed, computed and written, every file of the key holds the
\* complete value one of them wrote.
C18_RaceIsBenign ==
    /\ \A t \in DOMAIN thr : thr[t].out # "raised"
    /\ BothWrote =>
          \A path \in DOMAIN files : files[path].data \in CompleteWrites

\* C19: a batch worker writes a cache file only for a request that has
\* cache_time and whose HTTP call was answered by a decoded response, so a
\* request with cache_time that had no successful entry in one run is sent
\* to the network again in the next run.
C19_OnlySuccessCached ==
    /\ \A i \in Indices :
          (\E path \in DOMAIN files : path.key = RequestHash(requests_list[i])) =>
              /\ requests_list[i].cache_time # <<>>
              /\ \E p \in 1 .. 2 : http_out[p][i] = "response"
    /\ (Done /\ run_no >= 2) => \A i \in prev_failed : net_calls[i] >= 1

NoCacheTime == \A i \in Indices : requests_list[i].cache_time = <<>>

\* C20: while run works on a batch in which no request has cache_time, no
\* worker uses cache_handler and the cache directory stays as it was,
\* however the HTTP calls end.
C20_NoCacheTimeNoCacheUse ==
    NoCacheTime => (\A i \in Indices : cache_ops[i] = 0) /\ files = EmptyMap

\* a finished run without cache_time in which one request ended with an
\* error result, another with a response, and a worker was retried
C20_Witness ==
    /\ Done /\ NoCacheTime /\ Retried
    /\ \E i, j \in Indices : ErrorShaped(i) /\ SuccessShaped(j)
    /\ \A i \in Indices : cache_ops[i] = 0

\* ------------------------------------------------------------------ C21
\* C21: at every instant of a run the number of _worker invocations that are
\* executing is at most max_workers; the futures of the first pass and of
\* the retry pass are all held in fut, so both passes are counted.
C21_BoundedParallelism ==
    Cardinality(Running) <= max_workers

\* the pool is full in the retry pass while a work item waits in the queue
C21_Witness ==
    /\ pc = "retry"
    /\ Cardinality(Running) = max_workers
    /\ Queued # {}

\* ------------------------------------------------------------------ C22
\* observer: the _worker invocation of pass p for original index i is over
WorkerOver(p, i) == i \in raised[p] \/ http_out[p][i] # "none"

FirstPassOver == \A i \in Indices : calls[1][i] = 1 /\ WorkerOver(1, i)

\* C22: a retry-pass worker starts only when every first-pass worker of the
\* run has completed, and run returns only when every worker it started,
\* first pass and retry pass, has completed.
C22_PassOrdering ==
    [][/\ (\E i \in Indices : calls'[2][i] > calls[2][i]) => FirstPassOver
       /\ (pc' = "done" /\ pc # "done") =>
             /\ FirstPassOver
             /\ \A i \in Indices : calls[2][i] > 0 => WorkerOver(2, i)]_vars

\* run has returned after a retry pass of two workers
C22_Witness ==
    /\ pc = "done"
    /\ Cardinality({i \in Indices : calls[2][i] > 0}) = 2

\* ------------------------------------------------------------------ C23
\* the id the caller expects for the request at position i of the list
\* handed to run: its own id when it has one, its position otherwise
ExpectedId(i) ==
    IF requests_list[i].id # <<>> THEN requests_list[i].id[1] ELSE i

\* C23: every entry run returns carries the id of its request, or without
\* one the position of the request in the list handed to run, whichever
\* pass produced the entry.
C23_ResultId ==
    pc = "done" => \A i \in Indices : HasEntry(i) => results[i].id = ExpectedId(i)

\* ------------------------------------------------------------------ C24
\* two memoized functions that compute the same key and differ in ttl_s only
SameKeyReaders(args) ==
    {pair \in Wrappers \X Wrappers :
        /\ KeyOf(pair[1], args) = KeyOf(pair[2], args)
        /\ pair[1].invalidate_if_return = pair[2].invalidate_if_return}

\* C24: whether a read finds an entry expired is decided by the write (its
\* time plus the ttl given to it), not by a ttl of the reader: two readers
\* of one key at the same instant agree on hit or miss.
C24_ReadersAgree ==
    \A args \in Args : \A pair \in SameKeyReaders(args) :
        Invokes(pair[1], args) <=> Invokes(pair[2], args)

\* ------------------------------------------------------------------ C25
\* the last call, made with caching enabled, found an entry of its key that
\* was as old as its ttl_s or older
ExpiredRead ==
    /\ ~IsNone(last) /\ ~last.off
    /\ last.pre # <<>>
    /\ last.pre[1].age >= last.w.ttl_s

\* C25: a read that finds the entry of its key expired deletes the file of
\* the entry: when the recomputation then raises, so that nothing new is
\* stored, no file of the key is left.
C25_ExpiredReadDeletes ==
    (ExpiredRead /\ last.computed = Raises) => last.left = {}

\* ------------------------------------------------------------------ C29
\* the last call missed, invoked func, and func raised
FuncRaised ==
    ~IsNone(last) /\ ~last.off /\ last.invoked /\ last.computed = Raises

\* C29: when the wrapped function raises on a miss, the caller receives the
\* exception, the files of the key (and of every other key) are what they
\* were before the call, and the next call with the same signature invokes
\* the wrapped function again.
C29_RaisePropagates ==
    FuncRaised =>
        /\ last.returned = Raises
        /\ last.left = last.found
        /\ ~last.touched
        /\ last.frame
        /\ Invokes(last.w, last.args)

\* func raised on a call that had found an expired entry of its key
C29_Witness ==
    FuncRaised /\ last.found # {} /\ last.lookup = "miss"

\* ------------------------------------------------------------------ C26
\* the identity token of a receiver: its instance_id value, or the one
\* default token of the receivers without instance_id
Token(receiver) ==
    IF receiver.instance_id = <<>> THEN [default |-> TRUE]
    ELSE [default |-> FALSE, value |-> receiver.instance_id[1]]

ReceiverNamed(obj) == CHOOSE r \in Receivers : r.obj = obj

\* the last call was m(receiver, "a")
MethodCalled == ~IsNone(last) /\ last.call.func = Method

\* C26: for a memoized method with fixed name and arguments, a receiver is
\* answered from the entry another receiver computed if and only if the two
\* have the same identity token.
C26_ReceiverIdentity ==
    MethodCalled =>
        LET me == last.call.args[1] IN
        /\ ~last.invoked => Token(ReceiverNamed(last.returned.detail)) = Token(me)
        /\ last.invoked =>
              \A r \in Receivers : r.obj \in last.pre => Token(r) # Token(me)

\* ------------------------------------------------------------------ C27
\* the last call was a call of a memoized function that is no method of a
\* receiver
FunctionCalled ==
    ~IsNone(last) /\ last.call.func \in {ModuleFunction, NestedFunction, StaticMethod}

\* C27: a memoized module-level function, nested function or static method
\* keeps its first positional argument in the key: a call is never answered
\* from the entry of a call with another first argument.
C27_FirstArgumentKept ==
    (FunctionCalled /\ ~last.invoked) =>
        last.returned.detail = Str(last.call.args[1])

\* ------------------------------------------------------------------ C28
\* the last operation was a call of disable_cache or enable_cache
Switched == ~IsNone(last) /\ "op" \in DOMAIN last
\* this step is a memoized call
CallStep == last' # last /\ "lookup" \in DOMAIN last'

\* C28: caching is disabled exactly while the marker file exists.  A call of
\* disable_cache or enable_cache from any process raises nothing and leaves
\* the marker present, respectively absent, also when it already was; only
\* these calls change the marker; and a memoized call bypasses the cache if
\* and only if the marker exists when it is made.
C28_MarkerIsTheState ==
    /\ [](Switched =>
            /\ ~last.exc
            /\ last.after = (last.op = "disable")
            /\ disabled = last.after)
    /\ [][/\ disabled' # disabled => "op" \in DOMAIN last'
          /\ CallStep => /\ (last'.lookup = "bypass") <=> disabled
                         /\ disabled' = disabled]_vars

\* enable_cache called in the second process while caching was enabled
C28_Witness ==
    Switched /\ last.op = "enable" /\ ~last.before /\ last.process = 2 /\ ~disabled

\* ------------------------------------------------------------------ C30
\* the last operation was cache_url on a URL that is fetched, caching enabled
CacheableUrlCalled ==
    ~IsNone(last) /\ "url" \in DOMAIN last /\ Cacheable(last.url) /\ ~last.off

\* C30: cache_url returns the path of a local file of the URL or the URL
\* itself and never raises, on the first call and on every repeated call,
\* whatever Content-Type the HEAD request reports.
C30_CacheUrlNeverRaises ==
    CacheableUrlCalled =>
        /\ last.outcome = "returned"
        /\ last.value.type \in {"path", "str"}
        /\ last.value.type = "str" => last.value.detail = last.url

====
